---------------------------- MODULE Spec2Model ----------------------------
(***************************************************************************)
(* Barnacle (cmd/barnacle/main.go): a polling loop that pulls a git        *)
(* repository and brings docker compose stacks up or down.                 *)
(*                                                                         *)
(* Go strings are modelled as sequences of one-character strings, so that  *)
(* strings.Split, the "." / ".." comparisons, Name()[0] and the            *)
(* " (deleted)" suffix are computed character by character.                *)
(* A Go map[string]bool used as a set is modelled by the set of its keys:  *)
(* every insertion in the program stores true (lines 358, 480, 505, 512)   *)
(* and a lookup of a missing key yields false.                             *)
(***************************************************************************)
EXTENDS Integers, Sequences, FiniteSets, TLC

VARIABLES
    pc,                \* position of main(): see the actions below
    repo,              \* main's repo variable: TRUE when non-nil
    root,              \* the directory config.RepoPath: name -> entry
    DeployedStacks,    \* state.DeployedStacks (in memory)
    stateFile,         \* contents of /app/barnacle-state.json
    trigger,           \* why the running cycle was started
    planKind,          \* "full" (deployAllStacks) or "targeted" (deployChanges' own body)
    changedFiles,      \* the changedFiles slice: [isNil, files]
    scanErr,           \* os.ReadDir(repoPath) failed in this cycle
    cycleErr,          \* the error returned by deployAllStacks / deployChanges
    currentStacks,     \* currentStacks of the cycle
    affectedStacks,    \* stacks for which up is planned (toDeploy)
    deletedStacks,     \* the deletedStacks slice (toRemove)
    upCalls,           \* stack -> number of dockerComposeUp invocations in the cycle
    downCalls,         \* stack -> number of dockerComposeDown invocations in the cycle
    upFailed,          \* stacks whose dockerComposeUp returned an error in the cycle
    downFailed,        \* stacks whose dockerComposeDown returned an error in the cycle
    deploymentResults, \* main's deploymentResults map: key -> "nil" | "err"
    downModes,         \* stack -> how docker compose down was invoked for it in the cycle
    saveErr,           \* saveState failed in this cycle
    notifications,     \* webhook events sent in this tick, in order
    pulled,            \* what pullRepo returned in this tick
    lastCycle          \* history: how the most recent deploy call ended, and
                       \* whether the directory changed since

vars == <<pc, repo, root, DeployedStacks, stateFile, trigger, planKind,
          changedFiles, scanErr, cycleErr, currentStacks, affectedStacks,
          deletedStacks, upCalls, downCalls, upFailed, downFailed,
          deploymentResults, downModes, saveErr, notifications, pulled,
          lastCycle>>

---------------------------------------------------------------------------
(* Bounds and input universes *)

\* longest changed-path list drawn for the resolver
MaxChanges == 2

Sep == "/"
Dot == <<".">>
DotDot == <<".", ".">>

StackA == <<"a">>
StackB == <<"b">>

\* the suffix cleanupDeletedStacks appends to a result key (lines 552, 555)
DeletedSuffix == <<" ", "(", "d", "e", "l", "e", "t", "e", "d", ")">>

\* a directory whose name is another stack's name followed by the suffix
StackADel == StackA \o DeletedSuffix

\* unit names used as inventories of the resolver
StackNames == {StackA, StackB}

\* changed paths handed to the resolver
PathPool ==
    { <<"a", "/", "x">>,                     \* a/x
      <<"a", "/", "s", "/", "x">>,           \* a/s/x
      <<"b", "/", "x">>,                     \* b/x
      <<"x">>,                               \* x        (root-level file)
      <<"c", "/", "x">>,                     \* c/x      (not a unit)
      <<"a">>,                               \* a
      <<".", "/", "a", "/", "x">>,           \* ./a/x
      <<".", "/", "b">>,                     \* ./b
      <<".">>,                               \* .
      <<".", "/">>,                          \* ./
      <<".", "/", ".", "/", "a">>,           \* ././a
      <<".", ".">>,                          \* ..
      <<".", ".", "/", "a", "/", "x">>,      \* ../a/x
      <<".", ".", "/", "b">>,                \* ../b
      <<".", "/", ".", ".", "/", "a">>,      \* ./../a
      <<".", ".", "a", "/", "x">>,           \* ..a/x
      <<"/", "a", "/", "x">>,                \* /a/x
      <<>> }                                 \* the empty string

SeqsUpTo(S, n) == UNION { [1..k -> S] : k \in 0..n }

ChangeLists == SeqsUpTo(PathPool, MaxChanges)

Range(s) == { s[i] : i \in DOMAIN s }

\* the orders in which a range loop may visit the keys of a map
Orders(S) == { o \in [1..Cardinality(S) -> S] : Range(o) = S }

---------------------------------------------------------------------------
(* strings.Split(file, "/") *)

RECURSIVE SplitFrom(_, _, _, _)
SplitFrom(file, i, cur, acc) ==
    IF i > Len(file) THEN Append(acc, cur)
    ELSE IF file[i] = Sep THEN SplitFrom(file, i + 1, <<>>, Append(acc, cur))
    ELSE SplitFrom(file, i + 1, Append(cur, file[i]), acc)

Split(file) == SplitFrom(file, 1, <<>>, <<>>)

---------------------------------------------------------------------------
(* getAffectedStacks *)

\* lines 504-506: the candidate is recorded only if it is a current stack
MarkAffected(stackName, currentStacks_, affected) ==
    IF stackName \in currentStacks_ THEN affected \cup {stackName} ELSE affected

\* mutant: the parent reference is skipped like the same-directory reference
ResolveFile_DotDotAsDot(file, currentStacks_, affected) ==
    LET parts == Split(file) IN
    IF Len(parts) > 0
    THEN IF parts[1] = Dot \/ parts[1] = DotDot
         THEN IF Len(parts) > 1
              THEN MarkAffected(parts[2], currentStacks_, affected)
              ELSE affected
         ELSE MarkAffected(parts[1], currentStacks_, affected)
    ELSE affected

\* mutant: the candidate is recorded without looking it up in currentStacks
ResolveFile_NoLookup(file, currentStacks_, affected) ==
    LET parts == Split(file) IN
    IF Len(parts) > 0 /\ parts[1] /= DotDot /\ parts[1] /= Dot
    THEN affected \cup {parts[1]}
    ELSE affected

\* mutant: a path is attributed to a stack only when it names a file directly in it
ResolveFile_DirectChildOnly(file, currentStacks_, affected) ==
    LET parts == Split(file) IN
    IF Len(parts) = 2
    THEN MarkAffected(parts[1], currentStacks_, affected)
    ELSE affected

\* mutant: the same-directory reference is not skipped: "." is the candidate
ResolveFile_DotIsCandidate(file, currentStacks_, affected) ==
    LET parts == Split(file) IN
    IF Len(parts) > 0 /\ parts[1] /= DotDot
    THEN MarkAffected(parts[1], currentStacks_, affected)
    ELSE affected

\* the body of the loop over changedFiles, lines 490-507
ResolveFile(file, currentStacks_, affected) ==
    LET parts == Split(file) IN
    IF Len(parts) > 0
    THEN IF parts[1] = DotDot
         THEN affected
         ELSE IF parts[1] = Dot
              THEN IF Len(parts) > 1
                   THEN MarkAffected(parts[2], currentStacks_, affected)
                   ELSE affected
              ELSE MarkAffected(parts[1], currentStacks_, affected)
    ELSE affected

\* mutant: the loop breaks at the first path that names a current stack
RECURSIVE ResolveFiles_StopAtFirstHit(_, _, _, _)
ResolveFiles_StopAtFirstHit(files, i, currentStacks_, affected) ==
    IF i > Len(files) \/ affected /= {} THEN affected
    ELSE ResolveFiles_StopAtFirstHit(files, i + 1, currentStacks_,
                                     ResolveFile(files[i], currentStacks_, affected))

\* the loop over changedFiles, lines 489-508
RECURSIVE ResolveFiles(_, _, _, _)
ResolveFiles(files, i, currentStacks_, affected) ==
    IF i > Len(files) THEN affected
    ELSE ResolveFiles(files, i + 1, currentStacks_,
                      ResolveFile(files[i], currentStacks_, affected))

\* mutant: every current stack is affected, deployed before or not
AddNewStacks_AllCurrent(affected, currentStacks_, deployedStacks_) ==
    affected \cup currentStacks_

\* mutant: the new-stack loop is missing
AddNewStacks_None(affected, currentStacks_, deployedStacks_) == affected

\* lines 510-515: every current stack that is not deployed is affected
AddNewStacks(affected, currentStacks_, deployedStacks_) ==
    affected \cup { s \in currentStacks_ : s \notin deployedStacks_ }

\* mutant: every deployed stack is reported deleted
CollectDeleted_All(order, i, currentStacks_, deleted) == order

\* lines 517-523: the deployed stacks, visited in map order, that are not current
RECURSIVE CollectDeleted(_, _, _, _)
CollectDeleted(order, i, currentStacks_, deleted) ==
    IF i > Len(order) THEN deleted
    ELSE CollectDeleted(order, i + 1, currentStacks_,
                        IF order[i] \notin currentStacks_
                        THEN Append(deleted, order[i])
                        ELSE deleted)

\* order: the order in which range visits deployedStacks
getAffectedStacks(files, currentStacks_, deployedStacks_, order) ==
    [ affected |-> AddNewStacks(ResolveFiles(files, 1, currentStacks_, {}),
                                currentStacks_, deployedStacks_),
      deleted  |-> CollectDeleted(order, 1, currentStacks_, <<>>) ]

---------------------------------------------------------------------------
(* The repository directory *)

\* hasComposeFile's list, line 388
ComposeFiles == { "docker-compose.yml", "docker-compose.yaml", "compose.yml", "compose.yaml" }

IgnoreFile == "ignore"

Absent     == [ exists |-> FALSE, isDir |-> FALSE, files |-> {} ]
PlainFile  == [ exists |-> TRUE,  isDir |-> FALSE, files |-> {} ]
PlainDir   == [ exists |-> TRUE,  isDir |-> TRUE,  files |-> {"x"} ]
StackDir   == [ exists |-> TRUE,  isDir |-> TRUE,  files |-> {"compose.yml"} ]
IgnoredDir == [ exists |-> TRUE,  isDir |-> TRUE,  files |-> {"compose.yml", IgnoreFile} ]

HiddenDir == <<".", "g">>
RootFile  == <<"x">>

\* the names a directory listing of the repository may show
DirNames == {StackA, StackB, StackADel, HiddenDir, RootFile}

\* the names that may be stacks
UnitNames == {StackA, StackB, StackADel}

\* the directory states the repository is put in: a is absent, a stack or an
\* ignored stack; b is a stack, a directory without compose file or a plain
\* file of that name; "a (deleted)" is absent or a stack
Roots ==
    { r \in [DirNames -> {Absent, PlainFile, PlainDir, StackDir, IgnoredDir}] :
        /\ r[StackA] \in {Absent, StackDir, IgnoredDir}
        /\ r[StackB] \in {StackDir, PlainDir, PlainFile}
        /\ r[StackADel] \in {Absent, StackDir}
        /\ r[HiddenDir] = StackDir
        /\ r[RootFile] = PlainFile }

\* os.ReadDir(repoPath): the entries that exist
ReadDirEntries(root_) == { n \in DOMAIN root_ : root_[n].exists }

hasComposeFile(files) == \E f \in ComposeFiles : f \in files

\* the body of getCurrentStacks' loop, lines 465-480
IsCurrentStack(name, entry) ==
    IF ~entry.isDir \/ name[1] = "." THEN FALSE
    ELSE IF IgnoreFile \in entry.files THEN FALSE
    ELSE IF ~hasComposeFile(entry.files) THEN FALSE
    ELSE TRUE

\* readDirErr: os.ReadDir fails
getCurrentStacks(root_, readDirErr) ==
    IF readDirErr
    THEN [ err |-> TRUE, stacks |-> {} ]
    ELSE [ err |-> FALSE,
           stacks |-> { n \in ReadDirEntries(root_) : IsCurrentStack(n, root_[n]) } ]

---------------------------------------------------------------------------
(* The executor *)

NilFiles == [ isNil |-> TRUE, files |-> <<>> ]
\* completed: the call got past os.ReadDir; abortedPull: deployChanges (line
\* 114) returned the error of os.ReadDir; rootChanged: the directory
\* config.RepoPath has changed since the call returned
NoCycle == [ completed |-> FALSE, abortedPull |-> FALSE, upFailed |-> {},
             rootChanged |-> FALSE ]
EmptyRoot == [ n \in {} |-> 0 ]
NoCalls == [ s \in {} |-> 0 ]
NoResults == [ k \in {} |-> "nil" ]

Count(calls, s) == IF s \in DOMAIN calls THEN calls[s] ELSE 0

\* one more invocation for stack s
Called(calls, s) == (s :> (Count(calls, s) + 1)) @@ calls

\* results[key] = value
Put(results, key, value) == (key :> value) @@ results

\* dockerComposeUp / dockerComposeDown: the command fails for the stacks in failing
Outcome(s, failing) == IF s \in failing THEN "err" ELSE "nil"

\* one order in which a loop visits the members of S
RECURSIVE SomeOrder(_)
SomeOrder(S) ==
    IF S = {} THEN <<>>
    ELSE LET s == CHOOSE x \in S : TRUE IN <<s>> \o SomeOrder(S \ {s})

\* deployStacks, lines 529-543; x = [results, upCalls, upFailed]
RECURSIVE deployStacksLoop(_, _, _, _)
deployStacksLoop(order, i, failing, x) ==
    IF i > Len(order) THEN x
    ELSE LET stackName == order[i]
             err == Outcome(stackName, failing)
         IN  deployStacksLoop(order, i + 1, failing,
                 [ results  |-> Put(x.results, stackName, err),
                   upCalls  |-> Called(x.upCalls, stackName),
                   upFailed |-> IF err = "err" THEN x.upFailed \cup {stackName}
                                ELSE x.upFailed ])

deployStacks(affected, results, failing) ==
    deployStacksLoop(SomeOrder(affected), 1, failing,
                     [ results |-> results, upCalls |-> NoCalls, upFailed |-> {} ])

NoModes == [ s \in {} |-> "none" ]

\* os.Stat(filepath.Join(repoPath, name)), line 410
StatOf(root_, name) == IF name \in DOMAIN root_ THEN root_[name] ELSE Absent

\* dockerComposeDown(stackPath, projectName), lines 409-423. entry is what
\* os.Stat(stackPath) finds. When Stat succeeds the command runs with
\* cmd.Dir = stackPath ("dir"), and cannot be started when stackPath is not a
\* directory; otherwise it runs from "/" with -p projectName ("project").
dockerComposeDown(entry, projectName, failing) ==
    IF entry.exists
    THEN [ mode |-> "dir",
           err  |-> IF ~entry.isDir THEN "err" ELSE Outcome(projectName, failing) ]
    ELSE [ mode |-> "project", err |-> Outcome(projectName, failing) ]

\* mutant: the loop stops at the first stack that fails to stop
RECURSIVE cleanupDeletedStacksLoop_StopOnError(_, _, _, _, _)
cleanupDeletedStacksLoop_StopOnError(deleted, i, root_, failing, x) ==
    IF i > Len(deleted) \/ x.downFailed /= {} THEN x
    ELSE LET down == dockerComposeDown(StatOf(root_, deleted[i]), deleted[i], failing) IN
         cleanupDeletedStacksLoop_StopOnError(deleted, i + 1, root_, failing,
             [ results    |-> Put(x.results, deleted[i] \o DeletedSuffix, down.err),
               downCalls  |-> Called(x.downCalls, deleted[i]),
               downModes  |-> (deleted[i] :> down.mode) @@ x.downModes,
               downFailed |-> IF down.err = "err" THEN {deleted[i]} ELSE {} ])

\* cleanupDeletedStacks, lines 545-558; x = [results, downCalls, downModes, downFailed]
RECURSIVE cleanupDeletedStacksLoop(_, _, _, _, _)
cleanupDeletedStacksLoop(deleted, i, root_, failing, x) ==
    IF i > Len(deleted) THEN x
    ELSE LET stackName == deleted[i]
             down == dockerComposeDown(StatOf(root_, stackName), stackName, failing)
         IN  cleanupDeletedStacksLoop(deleted, i + 1, root_, failing,
                 [ results    |-> Put(x.results, stackName \o DeletedSuffix, down.err),
                   downCalls  |-> Called(x.downCalls, stackName),
                   downModes  |-> (stackName :> down.mode) @@ x.downModes,
                   downFailed |-> IF down.err = "err" THEN x.downFailed \cup {stackName}
                                  ELSE x.downFailed ])

cleanupDeletedStacks(root_, deleted, results, failing) ==
    cleanupDeletedStacksLoop(deleted, 1, root_, failing,
                     [ results |-> results, downCalls |-> NoCalls,
                       downModes |-> NoModes, downFailed |-> {} ])

\* saveState, lines 184-195: the file is rewritten unless the write fails
saveState(deployed, file, writeErr) ==
    IF writeErr THEN file ELSE [ valid |-> TRUE, stacks |-> deployed ]

\* loadState, lines 165-182: an unreadable or corrupt file gives an empty map
loadState(file) == IF file.valid THEN file.stacks ELSE {}

---------------------------------------------------------------------------
(* deployAllStacks and deployChanges *)

\* mutant: deployAllStacks does not look for the ignore file
IsDeployableStack_NoIgnoreCheck(name, entry) ==
    IF ~entry.isDir \/ name[1] = "." THEN FALSE
    ELSE IF ~hasComposeFile(entry.files) THEN FALSE
    ELSE TRUE

\* the body of deployAllStacks' loop up to line 358
IsDeployableStack(name, entry) ==
    IF ~entry.isDir \/ name[1] = "." THEN FALSE
    ELSE IF IgnoreFile \in entry.files THEN FALSE
    ELSE IF ~hasComposeFile(entry.files) THEN FALSE
    ELSE TRUE

\* lines 370-375: the deployed stacks, visited in map order, that are not current
RECURSIVE DeletedOfFullPlan(_, _, _, _)
DeletedOfFullPlan(order, i, currentStacks_, deleted) ==
    IF i > Len(order) THEN deleted
    ELSE DeletedOfFullPlan(order, i + 1, currentStacks_,
                           IF order[i] \notin currentStacks_
                           THEN Append(deleted, order[i])
                           ELSE deleted)

\* mutant: the listing error is dropped and the scan counts as an empty
\* inventory: every deployed stack is stopped and the baseline is emptied
ScanFailed_AsEmptyInventory(kind, deployed, file, results) ==
    [ err |-> FALSE, scanErr |-> TRUE, planKind |-> kind,
      current |-> {}, affected |-> {}, deleted |-> SomeOrder(deployed),
      upCalls |-> NoCalls, downCalls |-> [ s \in deployed |-> 1 ],
      upFailed |-> {}, downFailed |-> {},
      downModes |-> [ s \in deployed |-> "project" ],
      results |-> results, deployed |-> {},
      stateFile |-> [ valid |-> TRUE, stacks |-> {} ],
      saveErr |-> FALSE ]

\* what a cycle leaves behind when os.ReadDir fails (lines 332-335, 438-441)
ScanFailed(kind, deployed, file, results) ==
    [ err |-> TRUE, scanErr |-> TRUE, planKind |-> kind,
      current |-> {}, affected |-> {}, deleted |-> <<>>,
      upCalls |-> NoCalls, downCalls |-> NoCalls, upFailed |-> {}, downFailed |-> {},
      downModes |-> NoModes,
      results |-> results, deployed |-> deployed, stateFile |-> file,
      saveErr |-> FALSE ]

\* mutant: a stack whose teardown failed stays in the baseline
NextBaseline_KeepFailedDowns(current, deployed, failed) ==
    current \cup (failed \ current)

\* mutant: a stack that failed to start is left out of the baseline
NextBaseline_WithoutFailed(current, deployed, failed) == current \ failed

\* mutant: the baseline moves only when every action succeeded
NextBaseline_OnSuccessOnly(current, deployed, failed) ==
    IF failed = {} THEN current ELSE deployed

\* lines 378 and 448: state.DeployedStacks = currentStacks
NextBaseline(current, deployed, failed) == current

\* mutant: once an up has failed the remaining entries are not processed
deployAllStacksStep_StopAfterFailure(name, entry, failing, x) ==
    IF x.upFailed /= {} \/ ~IsDeployableStack(name, entry) THEN x
    ELSE [ current       |-> x.current \cup {name},
           upCalls       |-> Called(x.upCalls, name),
           upFailed      |-> IF name \in failing THEN {name} ELSE {},
           deployedCount |-> IF name \in failing THEN x.deployedCount
                             ELSE x.deployedCount + 1 ]

\* the body of deployAllStacks' loop, lines 341-367;
\* x = [current, upCalls, upFailed, deployedCount]
deployAllStacksStep(name, entry, failing, x) ==
    IF ~IsDeployableStack(name, entry) THEN x
    ELSE LET err == Outcome(name, failing) IN
         [ current       |-> x.current \cup {name},
           upCalls       |-> Called(x.upCalls, name),
           upFailed      |-> IF err = "err" THEN x.upFailed \cup {name} ELSE x.upFailed,
           deployedCount |-> IF err = "err" THEN x.deployedCount
                             ELSE x.deployedCount + 1 ]

\* the loop over the directory entries, lines 340-368
RECURSIVE deployAllStacksLoop(_, _, _, _, _)
deployAllStacksLoop(entries, i, root_, failing, x) ==
    IF i > Len(entries) THEN x
    ELSE deployAllStacksLoop(entries, i + 1, root_, failing,
                             deployAllStacksStep(entries[i], root_[entries[i]], failing, x))

\* deployAllStacks, lines 331-385. results is the caller's map, which the
\* function does not receive: cleanupDeletedStacks gets a fresh map (line 376)
\* and the up outcomes are only logged.
deployAllStacks(root_, readDirErr, deployed, file, results, failing, order, writeErr) ==
    IF readDirErr THEN ScanFailed("full", deployed, file, results)
    ELSE
        LET ups     == deployAllStacksLoop(SomeOrder(ReadDirEntries(root_)), 1, root_, failing,
                           [ current |-> {}, upCalls |-> NoCalls, upFailed |-> {},
                             deployedCount |-> 0 ])
            deleted == DeletedOfFullPlan(order, 1, ups.current, <<>>)
            downs   == cleanupDeletedStacks(root_, deleted, NoResults, failing)
            next    == NextBaseline(ups.current, deployed,
                                    ups.upFailed \cup downs.downFailed)
        IN  [ err |-> FALSE, scanErr |-> FALSE, planKind |-> "full",
              current |-> ups.current, affected |-> ups.current, deleted |-> deleted,
              upCalls |-> ups.upCalls, downCalls |-> downs.downCalls,
              upFailed |-> ups.upFailed, downFailed |-> downs.downFailed,
              downModes |-> downs.downModes,
              results |-> results,
              deployed |-> next,
              stateFile |-> saveState(next, file, writeErr),
              saveErr |-> writeErr ]

\* line 434: changedFiles == nil
IsFullPlan(files) == files.isNil

\* deployChanges, lines 433-455
deployChanges(root_, readDirErr, files, deployed, file, results, failing, order, writeErr) ==
    IF IsFullPlan(files)
    THEN deployAllStacks(root_, readDirErr, deployed, file, results, failing, order, writeErr)
    ELSE
        LET scan == getCurrentStacks(root_, readDirErr) IN
        IF scan.err THEN ScanFailed("targeted", deployed, file, results)
        ELSE
            LET plan  == getAffectedStacks(files.files, scan.stacks, deployed, order)
                ups   == deployStacks(plan.affected, results, failing)
                downs == cleanupDeletedStacks(root_, plan.deleted, ups.results, failing)
                next  == NextBaseline(scan.stacks, deployed,
                                      ups.upFailed \cup downs.downFailed)
            IN  [ err |-> FALSE, scanErr |-> FALSE, planKind |-> "targeted",
                  current |-> scan.stacks, affected |-> plan.affected,
                  deleted |-> plan.deleted,
                  upCalls |-> ups.upCalls, downCalls |-> downs.downCalls,
                  upFailed |-> ups.upFailed, downFailed |-> downs.downFailed,
                  downModes |-> downs.downModes,
                  results |-> downs.results,
                  deployed |-> next,
                  stateFile |-> saveState(next, file, writeErr),
                  saveErr |-> writeErr ]

---------------------------------------------------------------------------
(* The resolver on its own: inputs drawn in the initial state, one call *)


InitResolver ==
    /\ pc = "resolverCall"
    /\ repo = TRUE
    /\ root = EmptyRoot
    /\ DeployedStacks \in SUBSET StackNames
    /\ stateFile = [ valid |-> FALSE, stacks |-> {} ]
    /\ trigger = "none"
    /\ planKind = "none"
    /\ changedFiles \in { [ isNil |-> FALSE, files |-> l ] : l \in ChangeLists }
    /\ scanErr = FALSE
    /\ cycleErr = FALSE
    /\ currentStacks \in SUBSET StackNames
    /\ affectedStacks = {}
    /\ deletedStacks = <<>>
    /\ upCalls = NoCalls
    /\ downCalls = NoCalls
    /\ upFailed = {}
    /\ downFailed = {}
    /\ deploymentResults = NoResults
    /\ downModes = NoModes
    /\ saveErr = FALSE
    /\ notifications = <<>>
    /\ pulled = "none"
    /\ lastCycle = NoCycle

CallGetAffectedStacks ==
    /\ pc = "resolverCall"
    /\ \E order \in Orders(DeployedStacks) :
         LET r == getAffectedStacks(changedFiles.files, currentStacks,
                                    DeployedStacks, order) IN
         /\ affectedStacks' = r.affected
         /\ deletedStacks' = r.deleted
    /\ pc' = "resolverReturned"
    /\ UNCHANGED <<repo, root, DeployedStacks, stateFile, trigger, planKind,
                   changedFiles, scanErr, cycleErr, currentStacks, upCalls,
                   downCalls, upFailed, downFailed, deploymentResults, downModes,
                   saveErr, notifications, pulled, lastCycle>>

NextResolver == CallGetAffectedStacks

SpecResolver == InitResolver /\ [][NextResolver]_vars

---------------------------------------------------------------------------
(* The two scans on their own: a directory drawn in the initial state is *)
(* scanned by getCurrentStacks and by deployAllStacks                     *)

\* the file names a scanned directory may hold
ScanFileNames == ComposeFiles \cup {IgnoreFile, "x", "Compose.yml"}

\* a visible entry: absent, a plain file, or a directory with any of the files
ScanEntries ==
    {Absent, PlainFile}
        \cup { [ exists |-> TRUE, isDir |-> TRUE, files |-> F ] :
                 F \in SUBSET ScanFileNames }

ScanRoots ==
    { r \in [{StackA, HiddenDir} -> ScanEntries] :
        r[HiddenDir] \in {Absent, PlainFile, StackDir, IgnoredDir} }

InitScanner ==
    /\ pc = "scanCall"
    /\ repo = TRUE
    /\ root \in ScanRoots
    /\ DeployedStacks = {}
    /\ stateFile = [ valid |-> FALSE, stacks |-> {} ]
    /\ trigger = "none"
    /\ planKind = "none"
    /\ changedFiles = NilFiles
    /\ scanErr = FALSE
    /\ cycleErr = FALSE
    /\ currentStacks = {}
    /\ affectedStacks = {}
    /\ deletedStacks = <<>>
    /\ upCalls = NoCalls
    /\ downCalls = NoCalls
    /\ upFailed = {}
    /\ downFailed = {}
    /\ deploymentResults = NoResults
    /\ downModes = NoModes
    /\ saveErr = FALSE
    /\ notifications = <<>>
    /\ pulled = "none"
    /\ lastCycle = NoCycle

\* getCurrentStacks(repoPath), line 437
CallGetCurrentStacks ==
    /\ pc = "scanCall"
    /\ currentStacks' = getCurrentStacks(root, FALSE).stacks
    /\ pc' = "scannedTargeted"
    /\ UNCHANGED <<repo, root, DeployedStacks, stateFile, trigger, planKind,
                   changedFiles, scanErr, cycleErr, affectedStacks, deletedStacks,
                   upCalls, downCalls, upFailed, downFailed, deploymentResults,
                   downModes, saveErr, notifications, pulled, lastCycle>>

\* deployAllStacks on the same directory; what it brings up is its currentStacks
CallDeployAllStacks ==
    /\ pc = "scannedTargeted"
    /\ LET c == deployAllStacks(root, FALSE, DeployedStacks, stateFile,
                                deploymentResults, {}, <<>>, FALSE)
       IN  /\ affectedStacks' = c.current
           /\ upCalls' = c.upCalls
    /\ pc' = "scannedBoth"
    /\ UNCHANGED <<repo, root, DeployedStacks, stateFile, trigger, planKind,
                   changedFiles, scanErr, cycleErr, currentStacks, deletedStacks,
                   downCalls, upFailed, downFailed, deploymentResults,
                   downModes, saveErr, notifications, pulled, lastCycle>>

NextScanner == CallGetCurrentStacks \/ CallDeployAllStacks

SpecScanner == InitScanner /\ [][NextScanner]_vars

---------------------------------------------------------------------------
(* pullRepo and getChangedFiles *)

NoName == <<>>

Modified(path) == [ from |-> path,   to |-> path ]
Added(path)    == [ from |-> NoName, to |-> path ]
Removed(path)  == [ from |-> path,   to |-> NoName ]

InA    == <<"a", "/", "x">>
InB    == <<"b", "/", "x">>
InADel == StackADel \o <<"/", "x">>

\* the tree diffs of the revisions that are pulled
DiffPool ==
    { <<>>,
      << Modified(InA) >>,
      << Removed(InB) >>,
      << Added(RootFile) >>,
      << Modified(InADel) >>,
      << Modified(InA), Added(InADel) >> }

\* lines 310-317: var changedFiles []string, then one append per named change
RECURSIVE getChangedFilesLoop(_, _, _)
getChangedFilesLoop(changes, i, files) ==
    IF i > Len(changes) THEN files
    ELSE getChangedFilesLoop(changes, i + 1,
            IF changes[i].to /= NoName
            THEN [ isNil |-> FALSE, files |-> Append(files.files, changes[i].to) ]
            ELSE IF changes[i].from /= NoName
                 THEN [ isNil |-> FALSE, files |-> Append(files.files, changes[i].from) ]
                 ELSE files)

\* mutant: the list starts as an empty slice instead of a nil one
getChangedFiles_EmptySlice(changes) ==
    getChangedFilesLoop(changes, 1, [ isNil |-> FALSE, files |-> <<>> ])

\* getChangedFiles, lines 284-320, when the commits, trees and diff are read
getChangedFiles(changes) == getChangedFilesLoop(changes, 1, NilFiles)

\* pullRepo's return for a new revision, lines 275-281: a failed diff gives nil
ChangedFilesOfPull(diffErr, changes) ==
    IF diffErr THEN NilFiles ELSE getChangedFiles(changes)

---------------------------------------------------------------------------
(* main *)

StateFiles ==
    { [ valid |-> FALSE, stacks |-> {} ] }
        \cup { [ valid |-> TRUE, stacks |-> S ] : S \in SUBSET UnitNames }

\* main up to line 67: the configuration and the state file are loaded
Init ==
    /\ pc = "initializeRepo"
    /\ repo = FALSE
    /\ root \in Roots
    /\ stateFile \in StateFiles
    /\ DeployedStacks = loadState(stateFile)
    /\ trigger = "none"
    /\ planKind = "none"
    /\ changedFiles = NilFiles
    /\ scanErr = FALSE
    /\ cycleErr = FALSE
    /\ currentStacks = {}
    /\ affectedStacks = {}
    /\ deletedStacks = <<>>
    /\ upCalls = NoCalls
    /\ downCalls = NoCalls
    /\ upFailed = {}
    /\ downFailed = {}
    /\ deploymentResults = NoResults
    /\ downModes = NoModes
    /\ saveErr = FALSE
    /\ notifications = <<>>
    /\ pulled = "none"
    /\ lastCycle = NoCycle

cycleVars == <<trigger, planKind, changedFiles, scanErr, cycleErr, currentStacks,
               affectedStacks, deletedStacks, upCalls, downCalls, upFailed,
               downFailed, deploymentResults, downModes, saveErr, notifications,
               pulled>>

\* the variables a deploy call leaves behind
Deployed(c, why) ==
    /\ trigger' = why
    /\ planKind' = c.planKind
    /\ scanErr' = c.scanErr
    /\ cycleErr' = c.err
    /\ currentStacks' = c.current
    /\ affectedStacks' = c.affected
    /\ deletedStacks' = c.deleted
    /\ upCalls' = c.upCalls
    /\ downCalls' = c.downCalls
    /\ upFailed' = c.upFailed
    /\ downFailed' = c.downFailed
    /\ deploymentResults' = c.results
    /\ downModes' = c.downModes
    /\ saveErr' = c.saveErr
    /\ DeployedStacks' = c.deployed
    /\ stateFile' = c.stateFile
    /\ lastCycle' = [ completed   |-> ~c.scanErr,
                      abortedPull |-> (c.scanErr /\ why = "pull"),
                      upFailed    |-> c.upFailed,
                      rootChanged |-> FALSE ]

\* the loop body's locals are gone when the next tick is awaited
Forgotten ==
    /\ trigger' = "none"
    /\ planKind' = "none"
    /\ changedFiles' = NilFiles
    /\ scanErr' = FALSE
    /\ cycleErr' = FALSE
    /\ currentStacks' = {}
    /\ affectedStacks' = {}
    /\ deletedStacks' = <<>>
    /\ upCalls' = NoCalls
    /\ downCalls' = NoCalls
    /\ upFailed' = {}
    /\ downFailed' = {}
    /\ deploymentResults' = NoResults
    /\ downModes' = NoModes
    /\ saveErr' = FALSE
    /\ notifications' = <<>>
    /\ pulled' = "none"

\* history: the directory becomes newRoot
Touched(newRoot) ==
    [ lastCycle EXCEPT !.rootChanged = @ \/ newRoot /= root ]

\* lines 68-70: log.Fatalf ends the process
OnStartError == "exited"

\* lines 88-91: the error is logged and the loop continues
OnTickInitError == "initFailed"

\* mutant: after a failed pull the loop goes on to deployChanges
OnPullError_DeployAnyway == "deployChanges"

\* lines 103-106: the error is logged and the loop continues
OnPullError == "pullFailed"

\* line 67-78: initializeRepo at start (getSSHAuth or the clone may fail)
Main_InitializeRepo ==
    /\ pc = "initializeRepo"
    /\ \E outcome \in {"repo", "empty", "error"} :
         /\ repo' = (outcome = "repo")
         /\ pc' = CASE outcome = "repo"  -> "deployInitial"
                    [] outcome = "empty" -> "wait"
                    [] outcome = "error" -> OnStartError
    /\ UNCHANGED <<root, DeployedStacks, stateFile, cycleVars, lastCycle>>

\* the stacks a docker compose command is issued for by a deploy call that
\* ends as c
Dockerable(c) == c.affected \cup Range(c.deleted)

\* the orders in which range may visit state.DeployedStacks (lines 370, 517),
\* up to the order among the stacks that are still current, which are skipped
MapOrders ==
    LET kept == DeployedStacks \cap getCurrentStacks(root, FALSE).stacks IN
    { SomeOrder(kept) \o o : o \in Orders(DeployedStacks \ kept) }

\* one call of deployAllStacks (lines 73 and 96)
RunDeployAllStacks(why) ==
    LET plan == deployAllStacks(root, FALSE, DeployedStacks, stateFile,
                                deploymentResults, {}, SomeOrder(DeployedStacks),
                                FALSE)
    IN  \E c \in { deployAllStacks(root, readDirErr, DeployedStacks, stateFile,
                                   deploymentResults, failing, order, writeErr) :
                     readDirErr \in BOOLEAN, failing \in SUBSET Dockerable(plan),
                     order \in MapOrders, writeErr \in BOOLEAN } :
            Deployed(c, why)

\* lines 72-75: the deployment at start
Main_InitialDeployment ==
    /\ pc = "deployInitial"
    /\ RunDeployAllStacks("start")
    /\ pc' = "cycleEnd"
    /\ UNCHANGED <<repo, root, changedFiles, notifications, pulled>>

\* lines 86-95: a tick while repo is nil; a clone that succeeds brings content
Tick_InitializeRepo ==
    /\ pc = "wait"
    /\ ~repo
    /\ \E outcome \in {"repo", "empty", "error"} :
         CASE outcome = "repo"  -> /\ repo' = TRUE
                                   /\ \E r \in Roots : /\ root' = r
                                                       /\ lastCycle' = Touched(r)
                                   /\ pc' = "deployAcquired"
           [] outcome = "empty" -> /\ pc' = "stillEmpty"
                                   /\ UNCHANGED <<repo, root, lastCycle>>
           [] outcome = "error" -> /\ pc' = OnTickInitError
                                   /\ UNCHANGED <<repo, root, lastCycle>>
    /\ UNCHANGED <<DeployedStacks, stateFile, cycleVars>>

\* lines 96-99
Tick_DeployAcquired ==
    /\ pc = "deployAcquired"
    /\ RunDeployAllStacks("acquired")
    /\ pc' = "cycleEnd"
    /\ UNCHANGED <<repo, root, changedFiles, notifications, pulled>>

\* lines 102-106 and 119-121: pullRepo fails (getSSHAuth, the fetch) or finds
\* no new revision. Its hard reset (lines 239-244) may have put tracked files
\* back by then.
Tick_PullNothing ==
    /\ pc = "wait"
    /\ repo
    /\ \E outcome \in {"error", "upToDate"} :
         /\ pulled' = outcome
         /\ pc' = IF outcome = "error" THEN OnPullError ELSE "noUpdates"
    /\ \E r \in Roots : /\ root' = r
                        /\ lastCycle' = Touched(r)
    /\ UNCHANGED <<repo, DeployedStacks, stateFile, trigger, planKind,
                   changedFiles, scanErr, cycleErr, currentStacks, affectedStacks,
                   deletedStacks, upCalls, downCalls, upFailed, downFailed,
                   deploymentResults, downModes, saveErr, notifications>>

\* lines 102-110: pullRepo brings a new revision; the worktree changes
Tick_PullUpdated ==
    /\ pc = "wait"
    /\ repo
    /\ \E r \in Roots : /\ root' = r
                        /\ lastCycle' = Touched(r)
    /\ changedFiles' \in { ChangedFilesOfPull(diffErr, changes) :
                             diffErr \in BOOLEAN, changes \in DiffPool }
    /\ pulled' = "updated"
    /\ pc' = "sendUpdate"
    /\ UNCHANGED <<repo, DeployedStacks, stateFile, trigger, planKind, scanErr,
                   cycleErr, currentStacks, affectedStacks, deletedStacks, upCalls,
                   downCalls, upFailed, downFailed, deploymentResults, downModes,
                   saveErr, notifications>>

\* what the webhook endpoint does with a request; "notConfigured": WEBHOOK_URL
\* is empty and nothing is sent
PostResponses == {"notConfigured", "answered", "failed", "never"}

\* sendDiscordWebhook, lines 663-686: http.Post with the default client, which
\* has no timeout, returns when the endpoint answers or the request fails
sendDiscordWebhook(response) ==
    IF response = "never" THEN "blockedInPost" ELSE "returned"

\* line 111: sendUpdateDetectedWebhook, called before deployChanges
Tick_SendUpdateDetected ==
    /\ pc = "sendUpdate"
    /\ \E response \in PostResponses :
         IF sendDiscordWebhook(response) = "returned"
         THEN /\ notifications' = Append(notifications, "updateDetected")
              /\ pc' = "deployChanges"
         ELSE /\ pc' = "blockedInPost"
              /\ UNCHANGED notifications
    /\ UNCHANGED <<repo, root, DeployedStacks, stateFile, trigger, planKind,
                   changedFiles, scanErr, cycleErr, currentStacks, affectedStacks,
                   deletedStacks, upCalls, downCalls, upFailed, downFailed,
                   deploymentResults, downModes, saveErr, pulled, lastCycle>>

\* lines 113-116: deployChanges with a fresh deploymentResults map
Tick_DeployChanges ==
    /\ pc = "deployChanges"
    /\ LET plan == deployChanges(root, FALSE, changedFiles, DeployedStacks,
                                 stateFile, NoResults, {},
                                 SomeOrder(DeployedStacks), FALSE)
       IN  \E c \in { deployChanges(root, readDirErr, changedFiles, DeployedStacks,
                                    stateFile, NoResults, failing, order, writeErr) :
                        readDirErr \in BOOLEAN, failing \in SUBSET Dockerable(plan),
                        order \in MapOrders, writeErr \in BOOLEAN } :
               Deployed(c, "pull")
    /\ pc' = "sendResult"
    /\ UNCHANGED <<repo, root, changedFiles, notifications, pulled>>

\* line 118: deploymentResults is handed to sendDeploymentResultWebhook
Tick_SendDeploymentResult ==
    /\ pc = "sendResult"
    /\ \E response \in PostResponses :
         IF sendDiscordWebhook(response) = "returned"
         THEN /\ notifications' = Append(notifications, "deploymentResult")
              /\ pc' = "cycleEnd"
         ELSE /\ pc' = "blockedInPost"
              /\ UNCHANGED notifications
    /\ UNCHANGED <<repo, root, DeployedStacks, stateFile, trigger, planKind,
                   changedFiles, scanErr, cycleErr, currentStacks, affectedStacks,
                   deletedStacks, upCalls, downCalls, upFailed, downFailed,
                   deploymentResults, downModes, saveErr, pulled, lastCycle>>

\* the loop body ends and the next tick is awaited (line 83)
EndCycle ==
    /\ pc = "cycleEnd"
    /\ Forgotten
    /\ pc' = "wait"
    /\ UNCHANGED <<repo, root, DeployedStacks, stateFile, lastCycle>>

\* lines 91, 94, 105 and 120: a tick that ran no cycle is over
NextTick ==
    /\ pc \in {"initFailed", "stillEmpty", "pullFailed", "noUpdates"}
    /\ Forgotten
    /\ pc' = "wait"
    /\ UNCHANGED <<repo, root, DeployedStacks, stateFile, lastCycle>>

\* between two ticks: stack directories are added to the worktree, removed
\* from it or given an ignore file by something other than the program
ExternalEdit ==
    /\ pc = "wait"
    /\ repo
    /\ \E r \in Roots \ {root} : /\ root' = r
                                 /\ lastCycle' = Touched(r)
    /\ UNCHANGED <<pc, repo, DeployedStacks, stateFile, cycleVars>>

Next ==
    \/ Main_InitializeRepo
    \/ Main_InitialDeployment
    \/ Tick_InitializeRepo
    \/ Tick_DeployAcquired
    \/ Tick_PullNothing
    \/ Tick_PullUpdated
    \/ Tick_SendUpdateDetected
    \/ Tick_DeployChanges
    \/ Tick_SendDeploymentResult
    \/ EndCycle
    \/ NextTick
    \/ ExternalEdit

Spec == Init /\ [][Next]_vars

---------------------------------------------------------------------------
(* What a changed path names, read off the path itself (not through Split) *)

SlashPositions(p) == { i \in 1..Len(p) : p[i] = Sep }

MinOf(S) == CHOOSE m \in S : \A n \in S : m <= n

\* the characters before the first "/" (the whole path when it has none)
FirstSegment(p) ==
    IF SlashPositions(p) = {} THEN p
    ELSE SubSeq(p, 1, MinOf(SlashPositions(p)) - 1)

HasSecondSegment(p) == SlashPositions(p) /= {}

\* the characters between the first "/" and the next one (or the end)
SecondSegment(p) ==
    LET first == MinOf(SlashPositions(p))
        later == { i \in SlashPositions(p) : i > first }
    IN  IF later = {} THEN SubSeq(p, first + 1, Len(p))
        ELSE SubSeq(p, first + 1, MinOf(later) - 1)

NamesUnit(p, u) ==
    \/ FirstSegment(p) = u
    \/ FirstSegment(p) = Dot /\ HasSecondSegment(p) /\ SecondSegment(p) = u

NotParentFirst(p) == FirstSegment(p) /= DotDot

ResolverReturned == pc = "resolverReturned"

---------------------------------------------------------------------------
(* Claims about getAffectedStacks, checked under SpecResolver *)

\* C1: a unit that is both current and persisted is in the affected set if and
\* only if some changed path names it: by its first segment, or by its second
\* segment after a first segment ".". Root-level files, other units and
\* directories that are not current units never add it.
C1_NoFalseDeploys ==
    ResolverReturned =>
        \A u \in currentStacks \cap DeployedStacks :
            u \in affectedStacks <=>
                \E i \in 1..Len(changedFiles.files) :
                    NamesUnit(changedFiles.files[i], u)

C1_Witness ==
    /\ ResolverReturned
    /\ Len(changedFiles.files) = 2
    /\ <<"a", "/", "s", "/", "x">> \in Range(changedFiles.files)
    /\ \E p \in Range(changedFiles.files) : p \in { <<"x">>, <<"c", "/", "x">> }
    /\ {StackA, StackB} \subseteq currentStacks \cap DeployedStacks
    /\ affectedStacks = {StackA}

\* C2: the paths whose first segment is ".." have no influence: the affected and
\* deleted sets are those of the same list with these paths removed, whatever
\* follows the ".."; with current = persisted and only such paths, nothing is
\* affected.
C2_ParentPathsIgnored ==
    ResolverReturned =>
        LET kept == SelectSeq(changedFiles.files, NotParentFirst)
            r == getAffectedStacks(kept, currentStacks, DeployedStacks,
                                   CHOOSE o \in Orders(DeployedStacks) : TRUE)
        IN  /\ affectedStacks = r.affected
            /\ Range(deletedStacks) = Range(r.deleted)
            /\ (kept = <<>> /\ currentStacks = DeployedStacks)
                  => affectedStacks = {}

C2_Witness ==
    /\ ResolverReturned
    /\ changedFiles.files = << <<".", ".", "/", "a", "/", "x">>, <<".", ".", "/", "b">> >>
    /\ currentStacks = {StackA, StackB}
    /\ DeployedStacks = {StackA, StackB}
    /\ affectedStacks = {}

\* C3: every unit of the current inventory that is not in the persisted
\* inventory is affected, whatever the change list (the empty one included).
C3_NewUnitForcesDeploy ==
    ResolverReturned => (currentStacks \ DeployedStacks) \subseteq affectedStacks

C3_Witness ==
    /\ ResolverReturned
    /\ changedFiles.files = <<>>
    /\ StackA \in currentStacks \ DeployedStacks
    /\ StackB \in currentStacks \cap DeployedStacks
    /\ affectedStacks = {StackA}

\* C4: the deleted list holds exactly the persisted units that are not current,
\* each once, and none of them is affected even when a changed path names it.
C4_DeletedExact ==
    ResolverReturned =>
        /\ Range(deletedStacks) = DeployedStacks \ currentStacks
        /\ Len(deletedStacks) = Cardinality(DeployedStacks \ currentStacks)
        /\ affectedStacks \cap (DeployedStacks \ currentStacks) = {}

C4_Witness ==
    /\ ResolverReturned
    /\ DeployedStacks = {StackA, StackB}
    /\ currentStacks = {}
    /\ <<"b", "/", "x">> \in Range(changedFiles.files)
    /\ Len(deletedStacks) = 2
    /\ affectedStacks = {}

\* C11: a changed path whose first segment is "." is attributed to the unit
\* named by its second segment when that unit is current, and to nothing
\* otherwise; the path "." alone adds no unit. With only such paths the affected
\* set is the new units plus the current units named by a second segment.
C11_SameDirectoryPrefix ==
    ResolverReturned =>
        LET files == changedFiles.files
            dotFirst == { i \in 1..Len(files) : FirstSegment(files[i]) = Dot }
            seconds == { SecondSegment(files[i]) :
                           i \in { j \in dotFirst : HasSecondSegment(files[j]) } }
        IN  /\ (seconds \cap currentStacks) \subseteq affectedStacks
            /\ dotFirst = 1..Len(files) =>
                  affectedStacks =
                      (currentStacks \ DeployedStacks) \cup (seconds \cap currentStacks)
            /\ (\A i \in 1..Len(files) : files[i] = Dot) =>
                  affectedStacks = currentStacks \ DeployedStacks

C11_Witness ==
    /\ ResolverReturned
    /\ changedFiles.files = << <<".", "/", "a", "/", "x">>, <<".">> >>
    /\ currentStacks = {StackA, StackB}
    /\ DeployedStacks = {StackA, StackB}
    /\ affectedStacks = {StackA}

\* the lists that hold the elements of s in another order
Reorderings(s) ==
    { [ i \in 1..Len(s) |-> s[f[i]] ] : f \in Orders(1..Len(s)) }

\* C12: the result depends on the inputs only as sets: whatever the order in
\* which the persisted inventory is visited, and for every permutation of the
\* change list, for the list with every entry repeated and for the list with
\* the repetitions removed, the affected set and the members of the deleted
\* list are those of the call that was made.
C12_OrderAndDuplicatesIrrelevant ==
    ResolverReturned =>
        LET files == changedFiles.files
            Same(l) ==
                \A o \in Orders(DeployedStacks) :
                    LET r == getAffectedStacks(l, currentStacks, DeployedStacks, o)
                    IN  /\ r.affected = affectedStacks
                        /\ Range(r.deleted) = Range(deletedStacks)
        IN  /\ Same(files)
            /\ \A l \in Reorderings(files) : Same(l)
            /\ Same(files \o files)
            /\ \A l \in Orders(Range(files)) : Same(l)

C12_Witness ==
    /\ ResolverReturned
    /\ changedFiles.files = << <<"a", "/", "x">>, <<"b", "/", "x">> >>
    /\ currentStacks = {StackA}
    /\ DeployedStacks = {StackA, StackB}
    /\ affectedStacks = {StackA}
    /\ deletedStacks = <<StackB>>

---------------------------------------------------------------------------
(* Claims about a reconciliation cycle, checked under Spec *)

\* a deploy call has just returned and its cycle is not over
CycleRan == pc \in {"sendResult", "cycleEnd"} /\ trigger /= "none"

\* the step in which deployAllStacks or deployChanges runs
DeployStep ==
    /\ pc \in {"deployInitial", "deployAcquired", "deployChanges"}
    /\ pc' \in {"sendResult", "cycleEnd"}

UpTargets(calls) == { s \in DOMAIN calls : calls[s] > 0 }

\* the units of a directory state: the directories, not hidden, that hold a
\* compose file and no ignore file
Inventory(root_) ==
    { n \in DOMAIN root_ :
        /\ root_[n].exists /\ root_[n].isDir
        /\ Head(n) /= "."
        /\ root_[n].files \cap ComposeFiles /= {}
        /\ IgnoreFile \notin root_[n].files }

Occurrences(seq, s) == Cardinality({ i \in DOMAIN seq : seq[i] = s })

\* C5: in every cycle, full or targeted, every up action targets a unit of the
\* inventory scanned in the cycle, every down action targets a unit that was in
\* the persisted inventory when the cycle began and is not in the scanned
\* inventory, and no unit gets both an up and a down action.
C5_PlanInvariant ==
    [][ DeployStep =>
          /\ UpTargets(upCalls') \subseteq currentStacks'
          /\ affectedStacks' \subseteq currentStacks'
          /\ UpTargets(downCalls') \subseteq DeployedStacks \ currentStacks'
          /\ Range(deletedStacks') \subseteq DeployedStacks \ currentStacks'
          /\ UpTargets(upCalls') \cap UpTargets(downCalls') = {}
          /\ affectedStacks' \cap Range(deletedStacks') = {} ]_vars

C5_Witness ==
    /\ pc = "sendResult"
    /\ planKind = "targeted"
    /\ UpTargets(upCalls) = {StackA, StackADel}
    /\ UpTargets(downCalls) = {StackB}
    /\ currentStacks = {StackA, StackADel}

\* C6: in a cycle up is attempted exactly once for every unit of toDeploy and
\* down exactly once for every unit of toRemove, and for no other unit,
\* whichever of these actions fail.
C6_BatchIsolation ==
    (CycleRan /\ ~scanErr) =>
        \A s \in UnitNames :
            /\ Count(upCalls, s) = IF s \in affectedStacks THEN 1 ELSE 0
            /\ Count(downCalls, s) = Occurrences(deletedStacks, s)
            /\ Occurrences(deletedStacks, s) <= 1
            /\ s \in upFailed => Count(upCalls, s) = 1
            /\ s \in downFailed => Count(downCalls, s) = 1

C6_Witness ==
    /\ pc = "sendResult"
    /\ Len(deletedStacks) = 2
    /\ deletedStacks[1] \in downFailed
    /\ deletedStacks[2] \notin downFailed
    /\ Count(downCalls, deletedStacks[2]) = 1
    /\ affectedStacks /= {}
    /\ upFailed = affectedStacks

\* C7: when the outcome mapping is handed to the notifier it holds the outcome
\* of every planned action: for every unit of toDeploy the result of its up,
\* for every unit of toRemove the result of its down, in full plans as in
\* targeted ones.
C7_NoOutcomeDropped ==
    (pc = "sendResult" /\ ~scanErr) =>
        /\ \A s \in affectedStacks :
              /\ s \in DOMAIN deploymentResults
              /\ deploymentResults[s] = Outcome(s, upFailed)
        /\ \A s \in Range(deletedStacks) :
              /\ (s \o DeletedSuffix) \in DOMAIN deploymentResults
              /\ deploymentResults[s \o DeletedSuffix] = Outcome(s, downFailed)

\* C8: after a cycle whose scan succeeded the in-memory persisted inventory is
\* the inventory scanned in that cycle, whether or not actions failed and
\* whether or not the state file could be written.
C8_BaselineAdvances ==
    (CycleRan /\ ~scanErr) => DeployedStacks = currentStacks

C8_Witness ==
    /\ CycleRan
    /\ ~scanErr
    /\ upFailed /= {}
    /\ downFailed /= {}
    /\ saveErr
    /\ stateFile.stacks /= currentStacks
    /\ DeployedStacks = currentStacks

\* C9: a cycle whose change list is unavailable (nil after a pull), the cycle
\* at process start and the first cycle after the repository gained content
\* run the full plan: unless the directory cannot be listed the cycle returns
\* no error and up is attempted once for every unit of the current inventory.
C9_FullPlanSelection ==
    (CycleRan /\ (trigger \in {"start", "acquired"} \/ changedFiles.isNil)) =>
        /\ planKind = "full"
        /\ cycleErr <=> scanErr
        /\ ~scanErr =>
              /\ currentStacks = Inventory(root)
              /\ affectedStacks = Inventory(root)
              /\ \A s \in Inventory(root) : Count(upCalls, s) = 1

C9_Witness ==
    /\ pc = "sendResult"
    /\ trigger = "pull"
    /\ changedFiles.isNil
    /\ ~scanErr
    /\ currentStacks = {StackA, StackB}
    /\ UpTargets(upCalls) = {StackA, StackB}
    /\ upFailed = {StackA}

\* C10 as stated: a nil change set means "no changes", so that a cycle run
\* with it brings up no unit except those new to the persisted inventory.
C10_NilMeansNoChanges ==
    [][ (DeployStep /\ pc = "deployChanges" /\ changedFiles.isNil /\ ~scanErr') =>
          UpTargets(upCalls') \subseteq currentStacks' \ DeployedStacks ]_vars

\* C10 amended: a change set without paths reaches deployChanges as nil (an
\* empty diff and a failed diff alike), and nil means "deploy everything": the
\* cycle brings up every current unit; a targeted plan is run exactly when
\* the change set names at least one path.
C10_NilMeansDeployEverything ==
    [][ (DeployStep /\ pc = "deployChanges" /\ ~scanErr') =>
          /\ changedFiles.isNil <=> changedFiles.files = <<>>
          /\ changedFiles.isNil =>
                /\ planKind' = "full"
                /\ UpTargets(upCalls') = Inventory(root)
          /\ ~changedFiles.isNil => planKind' = "targeted" ]_vars

C10_Witness ==
    /\ pc = "sendResult"
    /\ changedFiles.isNil
    /\ ~scanErr
    /\ currentStacks = {StackA, StackB}
    /\ DeployedStacks = {StackA, StackB}
    /\ stateFile.stacks = {StackA, StackB}
    /\ ~saveErr
    /\ UpTargets(upCalls) = {StackA, StackB}
    /\ upFailed = {}

\* C13: when the repository directory cannot be listed, in a full plan or a
\* targeted one, the deploy call returns an error, no up and no down is
\* invoked, and the persisted inventory and the state file are those the
\* cycle started with.
C13_ScanFailureTouchesNothing ==
    [][ (DeployStep /\ scanErr') =>
          /\ cycleErr'
          /\ upCalls' = NoCalls
          /\ downCalls' = NoCalls
          /\ DeployedStacks' = DeployedStacks
          /\ stateFile' = stateFile ]_vars

C13_Witness ==
    /\ CycleRan
    /\ scanErr
    /\ cycleErr
    /\ planKind = "targeted"
    /\ trigger = "pull"
    /\ DeployedStacks = {StackA, StackB}
    /\ stateFile.stacks = {StackA, StackB}
    /\ root[StackA] = Absent
    /\ root[StackB] = StackDir
    /\ upCalls = NoCalls
    /\ downCalls = NoCalls

\* C14: a cycle started by a new revision and aborted because the repository
\* directory could not be listed is retried at the next tick: no tick that
\* follows it ends as "no updates found", without a scan and without a deploy
\* call, leaving the units of the aborted change set undeployed.
C14_AbortedCycleIsRetried ==
    ~ ( /\ pc = "noUpdates"
        /\ lastCycle.abortedPull )

\* C15: once the configuration is loaded no error ends the process: a
\* credential or repository acquisition failure, at start as on a later tick,
\* only ends the tick, and the terminated position is never reached.
C15_NoErrorTerminates == pc /= "exited"

\* C16: a unit whose directory holds the ignore file when the cycle scans
\* the repository is not operated on: the cycle invokes neither up nor down
\* for it, also when it was deployed by an earlier cycle and received its
\* ignore file afterwards.
C16_IgnoredStacksNotOperatedOn ==
    CycleRan =>
        \A s \in UnitNames :
            (root[s].isDir /\ IgnoreFile \in root[s].files) =>
                /\ Count(upCalls, s) = 0
                /\ Count(downCalls, s) = 0

---------------------------------------------------------------------------
(* Claims about the inventory scan, checked under SpecScanner *)

\* the inventory a directory state stands for, written out name by name
Eligible(root_) ==
    { n \in DOMAIN root_ :
        /\ root_[n].exists
        /\ root_[n].isDir
        /\ n[1] /= "."
        /\ \/ "docker-compose.yml" \in root_[n].files
           \/ "docker-compose.yaml" \in root_[n].files
           \/ "compose.yml" \in root_[n].files
           \/ "compose.yaml" \in root_[n].files
        /\ "ignore" \notin root_[n].files }

\* C17: the scan yields exactly the immediate subdirectories whose name does
\* not start with ".", that hold at least one of the four compose file names
\* and no ignore file; getCurrentStacks and deployAllStacks yield the same set
\* for the same directory state, and deployAllStacks brings up exactly that set.
C17_InventoryEligibility ==
    /\ pc \in {"scannedTargeted", "scannedBoth"} => currentStacks = Eligible(root)
    /\ pc = "scannedBoth" =>
          /\ affectedStacks = currentStacks
          /\ UpTargets(upCalls) = currentStacks

C17_Witness ==
    /\ pc = "scannedBoth"
    /\ root[StackA].files = {"compose.yaml", "x"}
    /\ root[HiddenDir] = StackDir
    /\ currentStacks = {StackA}
    /\ affectedStacks = {StackA}

---------------------------------------------------------------------------
(* Claims about the main loop (continued), checked under Spec *)

\* C18: the notifier cannot stall the loop: whatever the webhook endpoint
\* does, the process is never left inside a webhook call that does not
\* return, the position from which no step is possible, so a cycle that
\* detected an update goes on to run its plan, completes and lets the next
\* tick start.
C18_NotificationCannotStall ==
    pc /= "blockedInPost"

\* C19: a unit whose up failed in a cycle is in the baseline that cycle
\* leaves, so the new-unit rule does not bring it back: in the next cycle, when
\* it is targeted and the unit is still current, the unit is planned for up
\* only if a changed path of that cycle names it.
C19_FailedDeployNotRetriedAsNew ==
    [][ (DeployStep /\ planKind' = "targeted" /\ ~scanErr') =>
          \A u \in lastCycle.upFailed \cap currentStacks' :
              /\ u \in DeployedStacks
              /\ u \in affectedStacks' =>
                    \E i \in 1..Len(changedFiles.files) :
                        NamesUnit(changedFiles.files[i], u) ]_vars

\* the up of a failed while b stayed up; the next revision touches only b
C19_Witness ==
    /\ pc = "deployChanges"
    /\ lastCycle.upFailed = {StackA}
    /\ ~lastCycle.abortedPull
    /\ DeployedStacks = {StackA, StackB}
    /\ root[StackA] = StackDir
    /\ root[StackB] = PlainFile
    /\ changedFiles = [ isNil |-> FALSE, files |-> << InB >> ]

\* C20: for every unit of toRemove, when the unit's directory no longer
\* exists as the down action runs, the teardown is invoked by project name
\* (the unit name) and not from the directory; it is invoked from the unit's
\* directory only when that directory still exists.
C20_TeardownTargeting ==
    CycleRan =>
        \A s \in Range(deletedStacks) :
            LET directoryExists == root[s].exists /\ root[s].isDir IN
            /\ Count(downCalls, s) = 1
            /\ ~directoryExists => downModes[s] = "project"
            /\ downModes[s] = "dir" => directoryExists

\* C21: outcome entries never overwrite one another: at the end of a targeted
\* cycle the outcome mapping holds one entry per planned action, so its size
\* is the number of units planned for up plus the number planned for down,
\* also when a current unit is named like a removed unit followed by
\* " (deleted)".
C21_OneEntryPerPlannedAction ==
    (CycleRan /\ planKind = "targeted" /\ ~scanErr) =>
        Cardinality(DOMAIN deploymentResults)
            = Cardinality(affectedStacks) + Len(deletedStacks)

\* C22: right after a completed cycle, a targeted cycle over the unchanged
\* directory whose change list names no current unit plans nothing: no unit
\* is planned for up or for down, no command runs and the persisted inventory
\* stays as it was.
C22_IdempotentConvergence ==
    [][ ( /\ DeployStep
          /\ pc = "deployChanges"
          /\ lastCycle.completed
          /\ ~lastCycle.rootChanged
          /\ planKind' = "targeted"
          /\ ~scanErr'
          /\ \A i \in 1..Len(changedFiles.files) :
                \A u \in currentStacks' : ~NamesUnit(changedFiles.files[i], u) ) =>
          /\ affectedStacks' = {}
          /\ deletedStacks' = <<>>
          /\ upCalls' = NoCalls
          /\ downCalls' = NoCalls
          /\ DeployedStacks' = DeployedStacks ]_vars

\* the cycle before brought a and b up; the new revision only adds the
\* root-level file x and leaves the directory as it was
C22_Witness ==
    /\ pc = "deployChanges"
    /\ lastCycle.completed
    /\ ~lastCycle.rootChanged
    /\ DeployedStacks = {StackA, StackB}
    /\ root[StackA] = StackDir
    /\ root[StackB] = StackDir
    /\ root[StackADel] = Absent
    /\ changedFiles = [ isNil |-> FALSE, files |-> << RootFile >> ]

\* C23: a tick whose pull fails or finds the repository up to date changes
\* nothing: it ends without a scan, without an up or a down, without a
\* notification and without a state write, and the persisted inventory and
\* the state file are those the tick started with, also when stack
\* directories were added, removed or marked ignored since the last cycle.
C23_NoUpdateTickChangesNothing ==
    [][ pulled' \in {"error", "upToDate"} =>
          /\ pc' \in {"pullFailed", "noUpdates"}
          /\ DeployedStacks' = DeployedStacks
          /\ stateFile' = stateFile
          /\ planKind' = "none"
          /\ currentStacks' = {}
          /\ upCalls' = NoCalls
          /\ downCalls' = NoCalls
          /\ notifications' = <<>>
          /\ ~saveErr' ]_vars

\* a and b were deployed; since then a got an ignore file, b was replaced by
\* a plain file and "a (deleted)" was added
C23_Witness ==
    /\ pc = "noUpdates"
    /\ pulled = "upToDate"
    /\ lastCycle.completed
    /\ lastCycle.rootChanged
    /\ DeployedStacks = {StackA, StackB}
    /\ stateFile.stacks = {StackA, StackB}
    /\ root[StackA] = IgnoredDir
    /\ root[StackB] = PlainFile
    /\ root[StackADel] = StackDir
    /\ upCalls = NoCalls
    /\ downCalls = NoCalls

\* C24: a failed teardown is not retried. A unit whose down failed in a cycle
\* is out of the baseline that cycle leaves (and out of the state file when
\* the write succeeded); a cycle invokes down, once, only for units of the
\* baseline it started with that its scan did not find; and a unit enters the
\* baseline only in a cycle whose scan found it. So a later cycle invokes down
\* for the unit only after it was current again and then removed again.
C24_FailedTeardownNotRetried ==
    [][ /\ (DeployStep /\ ~scanErr') =>
              /\ downFailed' \subseteq UpTargets(downCalls')
              /\ downFailed' \cap DeployedStacks' = {}
              /\ ~saveErr' => downFailed' \cap stateFile'.stacks = {}
              /\ UpTargets(downCalls') \subseteq DeployedStacks \ currentStacks'
              /\ \A u \in UpTargets(downCalls') : downCalls'[u] = 1
        /\ \A u \in DeployedStacks' \ DeployedStacks :
              DeployStep /\ ~scanErr' /\ u \in currentStacks' ]_vars

\* the down of a failed in a pull-triggered cycle that also stopped b
C24_Witness ==
    /\ CycleRan
    /\ trigger = "pull"
    /\ ~scanErr
    /\ UpTargets(downCalls) = {StackA, StackB}
    /\ downFailed = {StackA}
    /\ StackA \notin DeployedStacks
    /\ ~saveErr
    /\ StackA \notin stateFile.stacks

============================================================================
